---------------------------- MODULE Spec2Model ----------------------------
(***************************************************************************)
(* A model of the SdnMonitor controller application                        *)
(* (Network-Simulation/sdn_monitor.py): the datapath registry, the         *)
(* free-running poll loop, and the flow-/port-statistics reply handlers    *)
(* with their per-key history and their two CSV sinks; and of the          *)
(* topology builder treeTopo (Network-Simulation/fat_tree_topo.py), a      *)
(* program of its own, up to the point where the network is started.       *)
(*                                                                         *)
(* Conventions                                                             *)
(*  - A Python float produced by "/" is kept as an exact fraction          *)
(*    <<numerator, denominator>>; the int 0 the code starts a rate with    *)
(*    is <<0, 1>>.  Fractions are compared with RatEq / RatLt.             *)
(*  - The f-string keys "dp-in_port-eth_dst-out_port" and "dp-port_no"     *)
(*    are kept as tuples of their parts (the parts hold no "-", so the     *)
(*    formatting is injective on them).                                    *)
(*  - The string 'N/A' is the number NA, which no port or address uses.    *)
(*  - MAC addresses are small numbers whose order is the order of the      *)
(*    strings they stand for ("00:00:00:00:00:01" < "00:00:00:00:00:02");   *)
(*    the empty string '' of the sort key is 0.                            *)
(***************************************************************************)
EXTENDS Integers, Sequences, FiniteSets, TLC

VARIABLES
    datapaths,           \* self.datapaths: the dict, as its entry array
    conn_state,          \* each control connection (Datapath object): new/main/dead
    mon_pc,              \* the monitor green thread: "sleep", "iter", "dead", "killed"
    dp_iter,             \* the iterator of self.datapaths.values() of the running pass
    sent,                \* the requests the running (or last) pass has issued
    flow_stats_history,  \* self.flow_stats_history
    port_stats_history,  \* self.port_stats_history
    flow_csv,            \* self.flow_csv / self.flow_writer
    port_csv,            \* self.port_csv / self.port_writer
    ev,                  \* the event most recently dispatched to a handler
    replies,             \* how much of the reply budget (MaxEntries) is used
    net,                 \* treeTopo: the Mininet object (nodes and links added)
    topo                 \* treeTopo: its local variables and its position

vars == <<datapaths, conn_state, mon_pc, dp_iter, sent, flow_stats_history,
          port_stats_history, flow_csv, port_csv, ev, replies, net, topo>>

monVars == <<datapaths, conn_state, mon_pc, dp_iter, sent>>
statVars == <<flow_stats_history, port_stats_history, flow_csv, port_csv>>
topoVars == <<net, topo>>

(***************************************************************************)
(* Bounds of the model.                                                    *)
(***************************************************************************)
\* The statistics entries the switches may send in all, an empty reply
\* counting as one.
MaxEntries == 2
\* The control connections (Datapath objects) that may ever be opened.
MaxConn == 3
\* The datapath ids the connections announce.
NumDpid == 2

(***************************************************************************)
(* Program constants.                                                      *)
(***************************************************************************)
\* 'N/A', the marker of a match field or output port that is not there.
NA == -1
\* Port numbers are 32-bit unsigned and TLC's integers are 32-bit signed, so
\* the reserved ports are kept 0xff000000 lower than they are: a port number
\* p >= 0xffffff00 is p - 0xff000000 here.  Ports below 2^24 are themselves,
\* and the order of all of them is kept.
\* 0xffffff00, the first reserved port number (OFPP_MAX): 0x00ffff00 here.
OFPP_MAX == 16776960
\* 0xfffffffe, the local port: 0x00fffffe here.
OFPP_LOCAL == 16777214

(***************************************************************************)
(* Fractions.                                                              *)
(***************************************************************************)
Rat(n, d) == <<n, d>>
Zero == <<0, 1>>
RatEq(a, b) == a[1] * b[2] = b[1] * a[2]
RatNeg(a) == (a[1] < 0 /\ a[2] > 0) \/ (a[1] > 0 /\ a[2] < 0)
RatIsZero(a) == a[1] = 0

(***************************************************************************)
(* Small helpers.                                                          *)
(***************************************************************************)
RECURSIVE SeqsUpTo(_, _)
\* Every sequence over S of length at most n.
SeqsUpTo(S, n) ==
    IF n <= 0 THEN {<<>>}
    ELSE LET shorter == SeqsUpTo(S, n - 1)
         IN  shorter \cup {Append(s, x) : s \in {q \in shorter : Len(q) = n - 1}, x \in S}

\* dict[key] = value
DictPut(d, key, value) ==
    [k \in (DOMAIN d) \cup {key} |-> IF k = key THEN value ELSE d[k]]

\* dict.get(field, default)
MatchGet(match, field, default) ==
    IF field \in DOMAIN match THEN match[field] ELSE default

EmptyDict == <<>>

(***************************************************************************)
(* The sinks.  A csv file is the rows that reached the file (flush), the   *)
(* rows still in the writer's buffer, and whether it has been closed.      *)
(***************************************************************************)
FlowHeader ==
    [columns |-> <<"timestamp", "datapath_id", "flow_id", "in_port", "eth_dst",
                   "out_port", "packets", "bytes", "duration_sec",
                   "throughput_bps", "packet_rate_pps">>]

PortHeader ==
    [columns |-> <<"timestamp", "datapath_id", "port_no", "rx_packets",
                   "tx_packets", "rx_bytes", "tx_bytes", "rx_errors", "tx_errors",
                   "rx_bps", "tx_bps", "rx_pps", "tx_pps", "error_rate_percent">>]

\* open(..., "w"), writerow(header), flush()
OpenCsv(header) == [file |-> <<header>>, buf |-> <<>>, closed |-> FALSE]

\* file.flush() of an open file
Flush(csv) == [csv EXCEPT !.file = csv.file \o csv.buf, !.buf = <<>>]

\* The data rows written so far (flushed or not), without the header row.
DataRows(csv) == Tail(csv.file \o csv.buf)

(***************************************************************************)
(* Flow statistics.  An OFPFlowStats entry is                              *)
(*   priority, match (a dict of the match fields that are set),            *)
(*   instructions (each with or without an actions list, each action with  *)
(*   or without a port), packet_count, byte_count, duration_sec,           *)
(* and defect says how the entry is malformed:                             *)
(*   "match"      stat.match is None (stat.match.get raises),              *)
(*   "byte_count" the entry has no byte_count attribute,                   *)
(*   "write"      writerow raises for this entry's row.                    *)
(***************************************************************************)
Output(p) == <<[has_actions |-> TRUE, actions |-> <<[has_port |-> TRUE, port |-> p]>>]>>
NoInstructions == <<>>
GotoTable == <<[has_actions |-> FALSE, actions |-> <<>>]>>
NoActions == <<[has_actions |-> TRUE, actions |-> <<>>]>>
SetField == <<[has_actions |-> TRUE, actions |-> <<[has_port |-> FALSE, port |-> 0]>>]>>

FlowStat(prio, inp, dst, instr, pkts, bytes, dur, defect) ==
    [priority |-> prio,
     match |-> [in_port |-> inp, eth_dst |-> dst, eth_src |-> 1],
     instructions |-> instr,
     packet_count |-> pkts, byte_count |-> bytes, duration_sec |-> dur,
     defect |-> defect]

\* The flow entries a reply is made of: one learned flow and its variations,
\* the last one a flow of another source host to the same destination.
FlowEntries ==
    {FlowStat(p, 1, 1, Output(2), 100, 125000, 10, "none") : p \in {0, 1, 2}}
    \cup {FlowStat(1, 2, 1, Output(2), 100, 125000, 10, "none"),
          FlowStat(1, 1, 2, Output(2), 100, 125000, 10, "none")}
    \cup {FlowStat(1, 1, 1, i, 100, 125000, 10, "none") :
             i \in {NoInstructions, GotoTable, NoActions, SetField}}
    \cup {FlowStat(1, 1, 1, Output(2), 0, 0, 0, "none"),
          FlowStat(1, 1, 1, Output(2), 10, 1000, 20, "none")}
    \cup {FlowStat(1, 1, 1, Output(2), 100, 125000, 10, d) :
             d \in {"match", "byte_count", "write"}}
    \cup {[FlowStat(1, 1, 1, Output(2), 10, 1000, 20, "none")
               EXCEPT !.match.eth_src = 2]}

\* The wall-clock readings time.time() may return (the clock may be set back).
Times == {0, 10}

\* A filter that only drops the priorities above 1.
FlowSelectedUpToOne(flow) == flow.priority <= 1

\* flow.priority == 1
FlowSelected(flow) == flow.priority = 1

\* (flow.match.get('in_port', 0), str(flow.match.get('eth_dst', '')))
FlowSortKey(flow) ==
    <<MatchGet(flow.match, "in_port", 0), MatchGet(flow.match, "eth_dst", 0)>>

\* Python's tuple "<" on two sort keys
FlowKeyLess(a, b) ==
    LET ka == FlowSortKey(a)
        kb == FlowSortKey(b)
    IN  ka[1] < kb[1] \/ (ka[1] = kb[1] /\ ka[2] < kb[2])

\* sorted(selected, key=...): Python's sort is stable, so entries with equal
\* keys keep the order they have in the reply.
FlowSorted(s) ==
    LET n == Len(s)
        rank(i) == 1 + Cardinality({j \in 1..n :
                        FlowKeyLess(s[j], s[i])
                        \/ (~FlowKeyLess(s[i], s[j]) /\ j < i)})
    IN  [k \in 1..n |-> s[CHOOSE i \in 1..n : rank(i) = k]]

\* The extraction without the hasattr(action, 'port') test.
ExtractOutPortUnguarded(stat) ==
    IF Len(stat.instructions) > 0
    THEN LET instruction == stat.instructions[1]
         IN  IF instruction.has_actions /\ Len(instruction.actions) > 0
             THEN instruction.actions[1].port
             ELSE NA
    ELSE NA

\* The output port of the first action of the first instruction, or 'N/A'.
ExtractOutPort(stat) ==
    IF Len(stat.instructions) > 0
    THEN LET instruction == stat.instructions[1]
         IN  IF instruction.has_actions /\ Len(instruction.actions) > 0
             THEN LET action == instruction.actions[1]
                  IN  IF action.has_port THEN action.port ELSE NA
             ELSE NA
    ELSE NA

FlowId(stat) ==
    <<MatchGet(stat.match, "in_port", NA), MatchGet(stat.match, "eth_dst", NA),
      ExtractOutPort(stat)>>

FlowKey(datapath_id, stat) == <<datapath_id>> \o FlowId(stat)

\* throughput_bps
FlowThroughput(stat) ==
    IF stat.duration_sec > 0
    THEN Rat(stat.byte_count * 8, stat.duration_sec)
    ELSE Zero

\* packet_rate_pps
FlowPacketRate(stat) ==
    IF stat.duration_sec > 0
    THEN Rat(stat.packet_count, stat.duration_sec)
    ELSE Zero

FlowRow(datapath_id, stat, current_time) ==
    [timestamp |-> current_time, datapath_id |-> datapath_id,
     flow_id |-> FlowId(stat),
     in_port |-> MatchGet(stat.match, "in_port", NA),
     eth_dst |-> MatchGet(stat.match, "eth_dst", NA),
     out_port |-> ExtractOutPort(stat),
     packets |-> stat.packet_count, bytes |-> stat.byte_count,
     duration_sec |-> stat.duration_sec,
     throughput_bps |-> FlowThroughput(stat),
     packet_rate_pps |-> FlowPacketRate(stat)]

\* One pass of the loop body for stat.  st is the handler's progress:
\* the history, the sink and whether an exception has left the loop.
FlowEntryStep(st, datapath_id, stat, current_time) ==
    IF stat.defect = "byte_count" /\ stat.duration_sec > 0
    THEN \* stat.byte_count raises in the rate computation
         [st EXCEPT !.raised = TRUE]
    ELSE LET stored == DictPut(st.history, FlowKey(datapath_id, stat),
                               [stat |-> stat, time |-> current_time])
         IN  IF stat.defect \in {"byte_count", "write"} \/ st.csv.closed
             THEN \* the history is set, then writerow (or its arguments) raises
                  [st EXCEPT !.history = stored, !.raised = TRUE]
             ELSE [st EXCEPT !.history = stored,
                             !.csv.buf = Append(st.csv.buf,
                                    FlowRow(datapath_id, stat, current_time))]

RECURSIVE FlowLoop(_, _, _, _)
\* for stat in stats: ... , left at the first exception
FlowLoop(st, datapath_id, stats, current_time) ==
    IF stats = <<>> \/ st.raised THEN st
    ELSE FlowLoop(FlowEntryStep(st, datapath_id, Head(stats), current_time),
                  datapath_id, Tail(stats), current_time)

\* The whole try block of _flow_stats_reply_handler; an exception anywhere
\* in it is logged and skips what is left of the block, the flush included.
FlowHandler(history, csv, datapath_id, body, current_time) ==
    LET selected == SelectSeq(body, FlowSelected)
        st0 == [history |-> history, csv |-> csv, raised |-> FALSE]
    IN  IF \E i \in 1..Len(selected) : selected[i].defect = "match"
        THEN \* the sort key raises before any entry is processed
             [st0 EXCEPT !.raised = TRUE]
        ELSE LET st == FlowLoop(st0, datapath_id,
                                FlowSorted(selected), current_time)
             IN  IF st.raised \/ st.csv.closed
                 THEN [st EXCEPT !.raised = TRUE]
                 ELSE [st EXCEPT !.csv = Flush(st.csv)]

(***************************************************************************)
(* Port statistics.  An OFPPortStats entry is port_no and the six          *)
(* counters; defect says how the entry is malformed:                       *)
(*   "port_no"   the entry has no port_no attribute,                       *)
(*   "rx_bytes"  the entry has no rx_bytes attribute,                      *)
(*   "write"     writerow raises for this entry's row.                     *)
(***************************************************************************)
PortStat(no, rxp, txp, rxb, txb, rxe, txe, defect) ==
    [port_no |-> no, rx_packets |-> rxp, tx_packets |-> txp,
     rx_bytes |-> rxb, tx_bytes |-> txb, rx_errors |-> rxe, tx_errors |-> txe,
     defect |-> defect]

\* The port entries a reply is made of: successive readings of port 1 (the
\* third after a counter reset), a second port, the local port, and
\* malformed entries.
PortEntries ==
    {PortStat(1, 0, 0, 0, 0, 0, 0, "none"),
     PortStat(1, 100, 100, 125000, 50000, 2, 0, "none"),
     PortStat(1, 10, 10, 1000, 1000, 0, 0, "none"),
     PortStat(1, 200, 200, 250000, 100000, 2, 0, "none"),
     PortStat(2, 100, 100, 125000, 50000, 2, 0, "none"),
     PortStat(OFPP_LOCAL, 100, 100, 125000, 50000, 2, 0, "none")}
    \cup {PortStat(1, 100, 100, 125000, 50000, 2, 0, d) :
             d \in {"port_no", "rx_bytes", "write"}}

\* Two successive samples of one port.
PortSamples ==
    {PortStat(1, 100, 100, 125000, 50000, 2, 0, "none"),
     PortStat(1, 200, 200, 250000, 100000, 2, 0, "none")}

\* sorted(body, key=attrgetter('port_no')), stable
PortSorted(s) ==
    LET n == Len(s)
        rank(i) == 1 + Cardinality({j \in 1..n :
                        s[j].port_no < s[i].port_no
                        \/ (s[j].port_no = s[i].port_no /\ j < i)})
    IN  [k \in 1..n |-> s[CHOOSE i \in 1..n : rank(i) = k]]

PortKey(datapath_id, stat) == <<datapath_id, stat.port_no>>

\* A handler that treats every sample as the first of its key.
PortHasDeltaNever(history, datapath_id, stat, current_time) == FALSE

\* "port_key in self.port_stats_history" and "time_diff > 0"
PortHasDelta(history, datapath_id, stat, current_time) ==
    /\ PortKey(datapath_id, stat) \in DOMAIN history
    /\ current_time - history[PortKey(datapath_id, stat)].time > 0

\* (counter - previous counter) * scale / time_diff, or the initial 0
PortRate(history, datapath_id, stat, current_time, counter, scale) ==
    IF PortHasDelta(history, datapath_id, stat, current_time)
    THEN LET prev == history[PortKey(datapath_id, stat)]
         IN  Rat((stat[counter] - prev.stat[counter]) * scale,
                 current_time - prev.time)
    ELSE Zero

\* error_rate
PortErrorRate(stat) ==
    LET total_packets == stat.rx_packets + stat.tx_packets
        total_errors == stat.rx_errors + stat.tx_errors
    IN  IF total_packets > 0 THEN Rat(total_errors * 100, total_packets) ELSE Zero

PortRow(history, datapath_id, stat, current_time) ==
    [timestamp |-> current_time, datapath_id |-> datapath_id,
     port_no |-> stat.port_no,
     rx_packets |-> stat.rx_packets, tx_packets |-> stat.tx_packets,
     rx_bytes |-> stat.rx_bytes, tx_bytes |-> stat.tx_bytes,
     rx_errors |-> stat.rx_errors, tx_errors |-> stat.tx_errors,
     rx_bps |-> PortRate(history, datapath_id, stat, current_time, "rx_bytes", 8),
     tx_bps |-> PortRate(history, datapath_id, stat, current_time, "tx_bytes", 8),
     rx_pps |-> PortRate(history, datapath_id, stat, current_time, "rx_packets", 1),
     tx_pps |-> PortRate(history, datapath_id, stat, current_time, "tx_packets", 1),
     error_rate_percent |-> PortErrorRate(stat)]

\* One pass of the loop body for stat (see FlowEntryStep for st).
PortEntryStep(st, datapath_id, stat, current_time) ==
    IF stat.port_no >= OFPP_MAX
    THEN st     \* continue
    ELSE IF /\ PortHasDelta(st.history, datapath_id, stat, current_time)
            /\ \/ stat.defect = "rx_bytes"
               \/ st.history[PortKey(datapath_id, stat)].stat.defect = "rx_bytes"
    THEN \* stat.rx_bytes or prev_stat.rx_bytes raises in the rate computation
         [st EXCEPT !.raised = TRUE]
    ELSE LET stored == DictPut(st.history, PortKey(datapath_id, stat),
                               [stat |-> stat, time |-> current_time])
         IN  IF stat.defect \in {"rx_bytes", "write"} \/ st.csv.closed
             THEN \* the history is set, then writerow (or its arguments) raises
                  [st EXCEPT !.history = stored, !.raised = TRUE]
             ELSE [st EXCEPT !.history = stored,
                             !.csv.buf = Append(st.csv.buf,
                                    PortRow(st.history, datapath_id, stat,
                                            current_time))]

RECURSIVE PortLoop(_, _, _, _)
\* for stat in sorted(body, ...): ... , left at the first exception
PortLoop(st, datapath_id, stats, current_time) ==
    IF stats = <<>> \/ st.raised THEN st
    ELSE PortLoop(PortEntryStep(st, datapath_id, Head(stats), current_time),
                  datapath_id, Tail(stats), current_time)

\* The whole try block of _port_stats_reply_handler.
PortHandler(history, csv, datapath_id, body, current_time) ==
    LET st0 == [history |-> history, csv |-> csv, raised |-> FALSE]
    IN  IF \E i \in 1..Len(body) : body[i].defect = "port_no"
        THEN \* attrgetter('port_no') raises in the sort
             [st0 EXCEPT !.raised = TRUE]
        ELSE LET st == PortLoop(st0, datapath_id, PortSorted(body), current_time)
             IN  IF st.raised \/ st.csv.closed
                 THEN [st EXCEPT !.raised = TRUE]
                 ELSE [st EXCEPT !.csv = Flush(st.csv)]

(***************************************************************************)
(* Events.  ev keeps the event a handler was last called with:             *)
(* kind "state" (conn, dpid, state), "flow" or "port" (dpid, body) and     *)
(* the time the handler read; "none" before the first event.               *)
(***************************************************************************)
\* The datapath ids the statistics replies come from: the replies of one
\* switch (no handler reads a key of another datapath id).
ReplyDpids == {1}
Conns == 1..MaxConn

\* The datapath id connection c announces: ids are reused, so that a switch
\* can hold a second connection.
DpidOf(c) == ((c - 1) % NumDpid) + 1

Event(kind, conn, dpid, state, body, time) ==
    [kind |-> kind, conn |-> conn, dpid |-> dpid, state |-> state,
     body |-> body, time |-> time]

NoEvent == Event("none", 0, 0, "", <<>>, 0)

\* The reply bodies over entries that fit the budget that is left.
Bodies(entries) ==
    {body \in SeqsUpTo(entries, MaxEntries - replies) :
        replies < MaxEntries}

\* What a reply with this body uses of the budget.
Cost(body) == IF body = <<>> THEN 1 ELSE Len(body)

(***************************************************************************)
(* The reply handlers.                                                     *)
(***************************************************************************)
FlowStatsReply ==
    \E datapath_id \in ReplyDpids, current_time \in Times,
       body \in Bodies(FlowEntries) :
        LET st == FlowHandler(flow_stats_history, flow_csv, datapath_id, body,
                              current_time)
        IN  /\ flow_stats_history' = st.history
            /\ flow_csv' = st.csv
            /\ ev' = Event("flow", 0, datapath_id, "", body, current_time)
            /\ replies' = replies + Cost(body)
            /\ UNCHANGED <<monVars, port_stats_history, port_csv, topoVars>>

\* The handler called with a reply whose entries are among entries.
PortReply(entries) ==
    \E datapath_id \in ReplyDpids, current_time \in Times,
       body \in Bodies(entries) :
        LET st == PortHandler(port_stats_history, port_csv, datapath_id, body,
                              current_time)
        IN  /\ port_stats_history' = st.history
            /\ port_csv' = st.csv
            /\ ev' = Event("port", 0, datapath_id, "", body, current_time)
            /\ replies' = replies + Cost(body)
            /\ UNCHANGED <<monVars, flow_stats_history, flow_csv, topoVars>>

PortStatsReply == PortReply(PortEntries)

(***************************************************************************)
(* The registry.  self.datapaths is a dict: datapaths is its entry array   *)
(* in insertion order, one slot [id, dp, live] per key ever inserted; del  *)
(* leaves the slot in place, not live, while the monitor's iterator is     *)
(* walking the array (as CPython does), and the dead slots are dropped     *)
(* when no iterator is left.  A resize of the array is not modelled.       *)
(***************************************************************************)
LiveSlots(dps) == {i \in 1..Len(dps) : dps[i].live}

\* The keys of the dict.
Ids(dps) == {dps[i].id : i \in LiveSlots(dps)}

\* dict[id], for id in Ids(dps)
Lookup(dps, id) == dps[CHOOSE i \in LiveSlots(dps) : dps[i].id = id].dp

\* The dict without the slots del has emptied.
Compact(dps) == SelectSeq(dps, LAMBDA slot : slot.live)

\* del dict[id]
DictDel(dps, id, iterating) ==
    LET emptied == [i \in 1..Len(dps) |->
                       IF dps[i].live /\ dps[i].id = id
                       THEN [dps[i] EXCEPT !.live = FALSE] ELSE dps[i]]
    IN  IF iterating THEN emptied ELSE Compact(emptied)

\* A registration that stores the handle whether or not the id is there.
RegisterOverwrite(dps, datapath) ==
    IF DpidOf(datapath) \notin Ids(dps)
    THEN Append(dps, [id |-> DpidOf(datapath), dp |-> datapath, live |-> TRUE])
    ELSE [i \in 1..Len(dps) |->
             IF dps[i].live /\ dps[i].id = DpidOf(datapath)
             THEN [dps[i] EXCEPT !.dp = datapath] ELSE dps[i]]

\* _state_change_handler, ev.state == MAIN_DISPATCHER
Register(dps, datapath) ==
    IF DpidOf(datapath) \notin Ids(dps)
    THEN Append(dps, [id |-> DpidOf(datapath), dp |-> datapath, live |-> TRUE])
    ELSE dps

\* _state_change_handler, ev.state == DEAD_DISPATCHER
Unregister(dps, datapath, iterating) ==
    IF DpidOf(datapath) \in Ids(dps)
    THEN DictDel(dps, DpidOf(datapath), iterating)
    ELSE dps

\* A connection reaches MAIN_DISPATCHER (once), or is closed, and the
\* handler is called with the event.
StateChange ==
    \E datapath \in Conns, state \in {"main", "dead"} :
        /\ \/ state = "main" /\ conn_state[datapath] = "new"
           \/ state = "dead" /\ conn_state[datapath] \in {"new", "main"}
        /\ conn_state' = [conn_state EXCEPT ![datapath] = state]
        /\ datapaths' = IF state = "main"
                        THEN Register(datapaths, datapath)
                        ELSE Unregister(datapaths, datapath, mon_pc = "iter")
        /\ ev' = Event("state", datapath, DpidOf(datapath), state, <<>>, 0)
        /\ UNCHANGED <<mon_pc, dp_iter, sent, statVars, replies, topoVars>>

(***************************************************************************)
(* The monitor thread.  It is a green thread (hub.spawn): it gives way in  *)
(* hub.sleep and wherever a call blocks, which datapath.send_msg may do    *)
(* (it queues the message on the connection's bounded send queue).  So     *)
(* the event handlers may run between two iterations of the for loop.      *)
(* mon_pc is "sleep" in hub.sleep, "iter" inside the for loop (in          *)
(* send_msg), "dead" once an exception has ended the thread.               *)
(***************************************************************************)
\* iter(self.datapaths.values())
NewIter(dps) ==
    [pos |-> 1, used |-> Cardinality(LiveSlots(dps)),
     left |-> Cardinality(LiveSlots(dps))]

\* The slot next(it) stops at: the first live one from it.pos on, 0 at the end.
NextSlot(dps, it) ==
    IF \E i \in LiveSlots(dps) : i >= it.pos
    THEN CHOOSE i \in LiveSlots(dps) :
            i >= it.pos /\ \A j \in LiveSlots(dps) : j >= it.pos => i <= j
    ELSE 0

\* The outcomes of next(it): "error" (RuntimeError: the dict changed size
\* during iteration),  "stop" (StopIteration), or "value".  An entry found
\* after as many values as the dict had entries raises RuntimeError
\* ("keys changed during iteration") from Python 3.8 on and is a value
\* before: both outcomes are kept.
IterOutcomes(dps, it) ==
    IF it.used # Cardinality(LiveSlots(dps)) THEN {"error"}
    ELSE IF NextSlot(dps, it) = 0 THEN {"stop"}
    ELSE IF it.left = 0 THEN {"error", "value"}
    ELSE {"value"}

\* _request_stats(datapath): the requests it sends, in order.
RequestStats(datapath) ==
    <<[dp |-> datapath, dpid |-> DpidOf(datapath), kind |-> "flow"],
      [dp |-> datapath, dpid |-> DpidOf(datapath), kind |-> "port"]>>

\* One step of "for dp in self.datapaths.values(): self._request_stats(dp)"
\* with iterator it, the pass having sent issued so far.
MonitorStep(it, issued) ==
    \E outcome \in IterOutcomes(datapaths, it) :
        \/ /\ outcome = "error"          \* nothing catches it: the thread ends
           /\ mon_pc' = "dead"
           /\ datapaths' = Compact(datapaths)
           /\ dp_iter' = it
           /\ sent' = issued
        \/ /\ outcome = "stop"           \* hub.sleep(10)
           /\ mon_pc' = "sleep"
           /\ datapaths' = Compact(datapaths)
           /\ dp_iter' = it
           /\ sent' = issued
        \/ /\ outcome = "value"
           /\ mon_pc' = "iter"
           /\ datapaths' = datapaths
           /\ dp_iter' = [it EXCEPT !.pos = NextSlot(datapaths, it) + 1,
                                    !.left = it.left - 1]
           /\ sent' = issued \o RequestStats(datapaths[NextSlot(datapaths, it)].dp)

\* hub.sleep returns: a new pass over the registry starts.
MonitorTick ==
    /\ mon_pc = "sleep"
    /\ MonitorStep(NewIter(datapaths), <<>>)
    /\ UNCHANGED <<conn_state, statVars, ev, replies, topoVars>>

\* send_msg returns: the pass goes on with the next entry.
MonitorResume ==
    /\ mon_pc = "iter"
    /\ MonitorStep(dp_iter, sent)
    /\ UNCHANGED <<conn_state, statVars, ev, replies, topoVars>>

(***************************************************************************)
(* Shutdown.  stop() kills the monitor thread (which is asleep or blocked  *)
(* in send_msg, or has ended already) and calls __del__, which closes the  *)
(* two files.  The application's handlers stay registered, so replies and  *)
(* state changes may still be handled afterwards.  mon_pc is "killed"      *)
(* once stop() has killed the thread.                                      *)
(***************************************************************************)
\* A close that only writes out what is buffered.
CloseLeavesOpen(csv) == Flush(csv)

\* file.close(): what is buffered is written and the file is closed; closing
\* a closed file does nothing.
Close(csv) == [Flush(csv) EXCEPT !.closed = TRUE]

\* stop()
Stop ==
    /\ mon_pc' = IF mon_pc = "dead" THEN "dead" ELSE "killed"
    /\ datapaths' = Compact(datapaths)
    /\ flow_csv' = Close(flow_csv)
    /\ port_csv' = Close(port_csv)
    /\ ev' = Event("stop", 0, 0, "", <<>>, 0)
    /\ UNCHANGED <<conn_state, dp_iter, sent, flow_stats_history,
                   port_stats_history, replies, topoVars>>

(***************************************************************************)
(* treeTopo.  A node is <<prefix, number>> for the name f'{prefix}{number}' *)
(* ("c", "a", "e", "h"); a link is [a, b, bw] as addLink was called.  net  *)
(* keeps what was added, in order (Mininet accepts a second link between   *)
(* the same two nodes).  topo.pc is the loop the program is in; topo.i,    *)
(* topo.j, topo.k are the positions of the loops; topo.node is the         *)
(* variable switch / host between addSwitch / addHost and append.          *)
(***************************************************************************)
\* range(2), range(4), range(8): the switches of each tier; range(16): hosts
NumCore == 2
NumAgg == 4
NumEdge == 8
NumHosts == 16
\* range(2) pods, the slices i*2:(i+1)*2 and i*4:(i+1)*4, range(2) hosts
NumPods == 2
AggPerPod == 2
EdgePerPod == 4
HostsPerEdge == 2
\* the bw argument of the three addLink calls
CoreAggBw == 100
AggEdgeBw == 50
EdgeHostBw == 10

\* Of a switch loop: its range, its name prefix, its list, and the loop after.
TierCount(pc) == CASE pc = "core" -> NumCore [] pc = "agg" -> NumAgg
                   [] pc = "edge" -> NumEdge
TierPrefix(pc) == CASE pc = "core" -> "c" [] pc = "agg" -> "a" [] pc = "edge" -> "e"
TierList(pc) == CASE pc = "core" -> "core_switches" [] pc = "agg" -> "agg_switches"
                  [] pc = "edge" -> "edge_switches"
TierNext(pc) == CASE pc = "core" -> "agg" [] pc = "agg" -> "edge" [] pc = "edge" -> "hosts"

Min(a, b) == IF a <= b THEN a ELSE b

\* A slice that takes the whole list.
SliceWhole(s, a, b) == s

\* s[a:b] for 0 <= a <= b (a slice is cut at the end of the list)
Slice(s, a, b) == SubSeq(s, Min(a, Len(s)) + 1, Min(b, Len(s)))

\* net.addLink(a, b, bw=bw)
AddLink(n, a, b, bw) == [n EXCEPT !.links = Append(@, [a |-> a, b |-> b, bw |-> bw])]

\* net.addController('c0', ...)
AddController ==
    /\ topo.pc = "controller"
    /\ net' = [net EXCEPT !.controllers = Append(@, "c0")]
    /\ topo' = [topo EXCEPT !.pc = "core", !.i = 0]
    /\ UNCHANGED <<monVars, statVars, ev, replies>>

\* switch = net.addSwitch(f'c{i+1}')   (and a, e)
AddSwitch ==
    /\ topo.pc \in {"core", "agg", "edge"}
    /\ topo.node = <<>>
    /\ net' = [net EXCEPT !.switches = Append(@, <<TierPrefix(topo.pc), topo.i + 1>>)]
    /\ topo' = [topo EXCEPT !.node = <<TierPrefix(topo.pc), topo.i + 1>>]
    /\ UNCHANGED <<monVars, statVars, ev, replies>>

\* core_switches.append(switch)   (and agg_, edge_), and the loop goes on
AppendSwitch ==
    /\ topo.pc \in {"core", "agg", "edge"}
    /\ topo.node # <<>>
    /\ LET last == topo.i + 1 = TierCount(topo.pc)
       IN  topo' = [topo EXCEPT ![TierList(topo.pc)] = Append(@, topo.node),
                                !.node = <<>>,
                                !.i = IF last THEN 0 ELSE topo.i + 1,
                                !.pc = IF last THEN TierNext(topo.pc) ELSE topo.pc]
    /\ UNCHANGED <<net, monVars, statVars, ev, replies>>

\* host = net.addHost(f'h{i+1}', ip=f'10.0.0.{i+1}/24')
AddHost ==
    /\ topo.pc = "hosts"
    /\ topo.node = <<>>
    /\ net' = [net EXCEPT !.hosts = Append(@, [name |-> <<"h", topo.i + 1>>,
                                               ip |-> topo.i + 1])]
    /\ topo' = [topo EXCEPT !.node = <<"h", topo.i + 1>>]
    /\ UNCHANGED <<monVars, statVars, ev, replies>>

\* hosts.append(host), and the loop goes on
AppendHost ==
    /\ topo.pc = "hosts"
    /\ topo.node # <<>>
    /\ LET last == topo.i + 1 = NumHosts
       IN  topo' = [topo EXCEPT !.hosts = Append(@, topo.node),
                                !.node = <<>>,
                                !.j = 0,
                                !.i = IF last THEN 0 ELSE topo.i + 1,
                                !.pc = IF last THEN "core_agg" ELSE "hosts"]
    /\ UNCHANGED <<net, monVars, statVars, ev, replies>>

\* for core_sw in core_switches: for agg_sw in agg_switches:
\*     net.addLink(core_sw, agg_sw, bw=100)
LinkCoreAgg ==
    /\ topo.pc = "core_agg"
    /\ net' = AddLink(net, topo.core_switches[topo.i + 1],
                      topo.agg_switches[topo.j + 1], CoreAggBw)
    /\ LET inner == topo.j + 1 = Len(topo.agg_switches)
           outer == inner /\ topo.i + 1 = Len(topo.core_switches)
       IN  topo' = [topo EXCEPT !.j = IF inner THEN 0 ELSE topo.j + 1,
                                !.i = IF outer THEN 0
                                      ELSE IF inner THEN topo.i + 1 ELSE topo.i,
                                !.pc = IF outer THEN "pod" ELSE "core_agg"]
    /\ UNCHANGED <<monVars, statVars, ev, replies>>

\* pod_agg_switches = agg_switches[i*2:(i+1)*2]
\* pod_edge_switches = edge_switches[i*4:(i+1)*4]
PodSlices ==
    /\ topo.pc = "pod"
    /\ topo' = [topo EXCEPT
                  !.pod_agg_switches =
                      Slice(topo.agg_switches, topo.i * AggPerPod,
                            (topo.i + 1) * AggPerPod),
                  !.pod_edge_switches =
                      Slice(topo.edge_switches, topo.i * EdgePerPod,
                            (topo.i + 1) * EdgePerPod),
                  !.j = 0, !.k = 0, !.pc = "agg_edge"]
    /\ UNCHANGED <<net, monVars, statVars, ev, replies>>

\* for agg_sw in pod_agg_switches: for edge_sw in pod_edge_switches:
\*     net.addLink(agg_sw, edge_sw, bw=50)
LinkAggEdge ==
    /\ topo.pc = "agg_edge"
    /\ net' = AddLink(net, topo.pod_agg_switches[topo.j + 1],
                      topo.pod_edge_switches[topo.k + 1], AggEdgeBw)
    /\ LET inner == topo.k + 1 = Len(topo.pod_edge_switches)
           outer == inner /\ topo.j + 1 = Len(topo.pod_agg_switches)
           last == outer /\ topo.i + 1 = NumPods
       IN  topo' = [topo EXCEPT !.k = IF inner THEN 0 ELSE topo.k + 1,
                                !.j = IF outer THEN 0
                                      ELSE IF inner THEN topo.j + 1 ELSE topo.j,
                                !.i = IF last THEN 0
                                      ELSE IF outer THEN topo.i + 1 ELSE topo.i,
                                !.pc = IF last THEN "edge_sw"
                                       ELSE IF outer THEN "pod" ELSE "agg_edge"]
    /\ UNCHANGED <<monVars, statVars, ev, replies>>

\* edge_sw = edge_switches[i]
EdgeSwitch ==
    /\ topo.pc = "edge_sw"
    /\ topo' = [topo EXCEPT !.node = topo.edge_switches[topo.i + 1],
                            !.j = 0, !.pc = "edge_host"]
    /\ UNCHANGED <<net, monVars, statVars, ev, replies>>

\* host = hosts[i*2+j]; net.addLink(edge_sw, host, bw=10)
LinkEdgeHost ==
    /\ topo.pc = "edge_host"
    /\ net' = AddLink(net, topo.node,
                      topo.hosts[topo.i * HostsPerEdge + topo.j + 1], EdgeHostBw)
    /\ LET inner == topo.j + 1 = HostsPerEdge
           last == inner /\ topo.i + 1 = NumEdge
       IN  topo' = [topo EXCEPT !.j = IF inner THEN 0 ELSE topo.j + 1,
                                !.i = IF inner THEN topo.i + 1 ELSE topo.i,
                                !.node = IF inner THEN <<>> ELSE topo.node,
                                !.pc = IF last THEN "done"
                                       ELSE IF inner THEN "edge_sw" ELSE "edge_host"]
    /\ UNCHANGED <<monVars, statVars, ev, replies>>

(***************************************************************************)
(* The state after __init__.                                               *)
(***************************************************************************)
Init ==
    /\ datapaths = <<>>
    /\ conn_state = [c \in Conns |-> "new"]
    /\ mon_pc = "sleep"
    /\ dp_iter = [pos |-> 0, used |-> 0, left |-> 0]
    /\ sent = <<>>
    /\ flow_stats_history = EmptyDict
    /\ port_stats_history = EmptyDict
    /\ flow_csv = OpenCsv(FlowHeader)
    /\ port_csv = OpenCsv(PortHeader)
    /\ ev = NoEvent
    /\ replies = 0
    /\ net = [controllers |-> <<>>, switches |-> <<>>, hosts |-> <<>>, links |-> <<>>]
    /\ topo = [pc |-> "controller", i |-> 0, j |-> 0, k |-> 0, node |-> <<>>,
               core_switches |-> <<>>, agg_switches |-> <<>>,
               edge_switches |-> <<>>, hosts |-> <<>>,
               pod_agg_switches |-> <<>>, pod_edge_switches |-> <<>>]

NextStats == FlowStatsReply \/ PortStatsReply

SpecStats == Init /\ [][NextStats]_vars

NextMonitor == StateChange \/ MonitorTick \/ MonitorResume

SpecMonitor == Init /\ [][NextMonitor]_vars

\* The reply handlers, with shutdown.
NextStatsStop == NextStats \/ Stop

SpecStatsStop == Init /\ [][NextStatsStop]_vars

\* The registry and the monitor thread, with shutdown.
NextMonitorStop == NextMonitor \/ Stop

SpecMonitorStop == Init /\ [][NextMonitorStop]_vars

\* Connections coming and going between the port-statistics replies of a
\* device.
NextReconnect == StateChange \/ PortReply(PortSamples)

SpecReconnect == Init /\ [][NextReconnect]_vars

\* treeTopo, statement by statement.
NextTopo ==
    \/ AddController \/ AddSwitch \/ AppendSwitch \/ AddHost \/ AppendHost
    \/ LinkCoreAgg \/ PodSlices \/ LinkAggEdge \/ EdgeSwitch \/ LinkEdgeHost

SpecTopo == Init /\ [][NextTopo]_vars

Next == NextStats \/ NextMonitor \/ Stop \/ NextTopo

Spec == Init /\ [][Next]_vars

(***************************************************************************)
(* What a step of a reply handler did, read off the two states.            *)
(***************************************************************************)
\* The rows the step added to the flow sink.
NewFlowRows ==
    SubSeq(DataRows(flow_csv'), Len(DataRows(flow_csv)) + 1,
           Len(DataRows(flow_csv')))

\* The rows the step added to the port sink.
NewPortRows ==
    SubSeq(DataRows(port_csv'), Len(DataRows(port_csv)) + 1,
           Len(DataRows(port_csv')))

\* How many entries of a sequence satisfy a test.
Count(s, Test(_)) == Cardinality({i \in 1..Len(s) : Test(s[i])})

WellFormed(stat) == stat.defect = "none"

\* The step handled a flow (port) reply made of one well-formed entry.
OneFlowEntry == ev'.kind = "flow" /\ Len(ev'.body) = 1 /\ WellFormed(ev'.body[1])
OnePortEntry == ev'.kind = "port" /\ Len(ev'.body) = 1 /\ WellFormed(ev'.body[1])

(***************************************************************************)
(* C1.  For a key with a stored previous sample, the rates of the next      *)
(* sample are computed from the counter deltas of the two samples:          *)
(* bits_per_sec = byte_delta * 8 / time_delta and packets_per_sec =         *)
(* packet_delta / time_delta, time_delta the difference of the two sample   *)
(* times.  Stated for a reply of one entry, a positive time_delta and       *)
(* counters that did not fall.                                              *)
(***************************************************************************)
C1_FlowRatesFromDeltas ==
    (OneFlowEntry /\ Len(NewFlowRows) = 1) =>
        LET row == NewFlowRows[1]
            key == <<row.datapath_id>> \o row.flow_id
        IN  (/\ key \in DOMAIN flow_stats_history
             /\ row.timestamp - flow_stats_history[key].time > 0
             /\ row.bytes >= flow_stats_history[key].stat.byte_count
             /\ row.packets >= flow_stats_history[key].stat.packet_count)
            => LET prev == flow_stats_history[key]
                   time_delta == row.timestamp - prev.time
               IN  /\ RatEq(row.throughput_bps,
                            Rat((row.bytes - prev.stat.byte_count) * 8, time_delta))
                   /\ RatEq(row.packet_rate_pps,
                            Rat(row.packets - prev.stat.packet_count, time_delta))

C1_PortRatesFromDeltas ==
    (OnePortEntry /\ Len(NewPortRows) = 1) =>
        LET row == NewPortRows[1]
            key == <<row.datapath_id, row.port_no>>
        IN  (/\ key \in DOMAIN port_stats_history
             /\ row.timestamp - port_stats_history[key].time > 0
             /\ \A c \in {"rx_bytes", "tx_bytes", "rx_packets", "tx_packets"} :
                    row[c] >= port_stats_history[key].stat[c])
            => LET prev == port_stats_history[key]
                   time_delta == row.timestamp - prev.time
               IN  /\ RatEq(row.rx_bps, Rat((row.rx_bytes - prev.stat.rx_bytes) * 8, time_delta))
                   /\ RatEq(row.tx_bps, Rat((row.tx_bytes - prev.stat.tx_bytes) * 8, time_delta))
                   /\ RatEq(row.rx_pps, Rat(row.rx_packets - prev.stat.rx_packets, time_delta))
                   /\ RatEq(row.tx_pps, Rat(row.tx_packets - prev.stat.tx_packets, time_delta))

C1_RatesFromDeltas == [][C1_FlowRatesFromDeltas /\ C1_PortRatesFromDeltas]_vars

(***************************************************************************)
(* C2.  Cold start and degenerate time: an entry processed for a key with   *)
(* no previous sample, or with an elapsed time that is zero or negative,    *)
(* has its record emitted with every rate field zero (throughput, packet    *)
(* rate and, for ports, error_rate_percent).  Stated for a reply of one     *)
(* entry that the handler processes (priority 1; not a reserved port).      *)
(***************************************************************************)
C2_FlowColdStart ==
    (OneFlowEntry /\ ev'.body[1].priority = 1) =>
        LET key == FlowKey(ev'.dpid, ev'.body[1])
        IN  (\/ key \notin DOMAIN flow_stats_history
             \/ ev'.time - flow_stats_history[key].time <= 0)
            => /\ Len(NewFlowRows) = 1
               /\ RatIsZero(NewFlowRows[1].throughput_bps)
               /\ RatIsZero(NewFlowRows[1].packet_rate_pps)

C2_PortColdStart ==
    (OnePortEntry /\ ev'.body[1].port_no < OFPP_MAX) =>
        LET key == <<ev'.dpid, ev'.body[1].port_no>>
        IN  (\/ key \notin DOMAIN port_stats_history
             \/ ev'.time - port_stats_history[key].time <= 0)
            => /\ Len(NewPortRows) = 1
               /\ \A f \in {"rx_bps", "tx_bps", "rx_pps", "tx_pps",
                            "error_rate_percent"} :
                      RatIsZero(NewPortRows[1][f])

C2_ColdStartZeroRates == [][C2_FlowColdStart /\ C2_PortColdStart]_vars

(***************************************************************************)
(* C3.  Negative-delta clamp: no emitted record carries a negative rate     *)
(* (a counter lower than in the previous sample gives the rate 0).          *)
(***************************************************************************)
C3_NoNegativeRate ==
    /\ \A i \in 1..Len(DataRows(flow_csv)) :
           \A f \in {"throughput_bps", "packet_rate_pps"} :
               ~RatNeg(DataRows(flow_csv)[i][f])
    /\ \A i \in 1..Len(DataRows(port_csv)) :
           \A f \in {"rx_bps", "tx_bps", "rx_pps", "tx_pps", "error_rate_percent"} :
               ~RatNeg(DataRows(port_csv)[i][f])

(***************************************************************************)
(* C4.  Table-miss exclusion: no flow entry of priority 0 is ever stored    *)
(* in the flow history or written to the flow sink: a reply adds at most    *)
(* as many rows as it has entries of another priority, each row the         *)
(* counters of such an entry, and a reply of table-miss entries alone       *)
(* leaves the history and the sink as they were.                            *)
(***************************************************************************)
NotTableMiss(stat) == stat.priority # 0

C4_TableMissExcluded ==
    [][/\ \A k \in DOMAIN flow_stats_history' :
              flow_stats_history'[k].stat.priority # 0
       /\ ev'.kind = "flow" =>
            /\ Len(NewFlowRows) <= Count(ev'.body, NotTableMiss)
            /\ \A i \in 1..Len(NewFlowRows) :
                   \E j \in 1..Len(ev'.body) :
                       /\ ev'.body[j].priority # 0
                       /\ NewFlowRows[i].in_port = ev'.body[j].match.in_port
                       /\ NewFlowRows[i].eth_dst = ev'.body[j].match.eth_dst
                       /\ NewFlowRows[i].packets = ev'.body[j].packet_count
                       /\ NewFlowRows[i].bytes = ev'.body[j].byte_count
            /\ Count(ev'.body, NotTableMiss) = 0 =>
                   /\ flow_stats_history' = flow_stats_history
                   /\ DataRows(flow_csv') = DataRows(flow_csv)]_vars

\* A reply of a table-miss entry and a learned flow has been handled, and
\* the sink holds the one row of the learned flow.
C4_Witness ==
    /\ ev.kind = "flow" /\ Len(ev.body) = 2
    /\ \E i, j \in 1..2 :
           /\ ev.body[i].priority = 0
           /\ ev.body[j].priority = 1 /\ WellFormed(ev.body[j])
    /\ Len(DataRows(flow_csv)) = 1
    /\ flow_csv.buf = <<>>

(***************************************************************************)
(* C5.  Every flow entry whose priority is above the baseline (0) is        *)
(* telemetry-worthy, whatever that priority is: a reply of well-formed      *)
(* entries adds one row per entry of priority above 0, and each such        *)
(* entry's history slot holds the sample of this reply.                     *)
(***************************************************************************)
AboveBaseline(stat) == stat.priority > 0

C5_EveryPriorityAboveBaseline ==
    [][(ev'.kind = "flow" /\ \A i \in 1..Len(ev'.body) : WellFormed(ev'.body[i])) =>
          /\ Len(NewFlowRows) = Count(ev'.body, AboveBaseline)
          /\ \A i \in 1..Len(ev'.body) :
                 AboveBaseline(ev'.body[i]) =>
                     /\ FlowKey(ev'.dpid, ev'.body[i]) \in DOMAIN flow_stats_history'
                     /\ flow_stats_history'[FlowKey(ev'.dpid, ev'.body[i])].time
                            = ev'.time]_vars

(***************************************************************************)
(* C6.  A missing output action is isolated: in a reply whose entries are   *)
(* otherwise well-formed, an entry with no instructions, no actions or an   *)
(* action without a port is still emitted, its out_port the marker 'N/A',   *)
(* and every other entry is emitted with the values it has in the reply     *)
(* without the entries that lack an output action.                          *)
(***************************************************************************)
HasOutputAction(stat) ==
    /\ Len(stat.instructions) > 0
    /\ stat.instructions[1].has_actions
    /\ Len(stat.instructions[1].actions) > 0
    /\ stat.instructions[1].actions[1].has_port

LearnedWithoutOutput(stat) == stat.priority = 1 /\ ~HasOutputAction(stat)

HasOutPort(row) == row.out_port # NA

C6_MissingOutputIsolated ==
    [][(/\ ev'.kind = "flow" /\ ~flow_csv.closed
        /\ \A i \in 1..Len(ev'.body) : WellFormed(ev'.body[i])) =>
          LET without == FlowHandler(flow_stats_history, flow_csv, ev'.dpid,
                                     SelectSeq(ev'.body, HasOutputAction), ev'.time)
          IN  /\ Count(NewFlowRows, HasOutPort) + Count(ev'.body, LearnedWithoutOutput)
                    = Len(NewFlowRows)
              /\ SelectSeq(NewFlowRows, HasOutPort)
                    = SubSeq(DataRows(without.csv), Len(DataRows(flow_csv)) + 1,
                             Len(DataRows(without.csv)))]_vars

\* A reply of a flow without an output action and a flow with one has been
\* handled: the sink holds a row with 'N/A' and a row with the port.
C6_Witness ==
    /\ ev.kind = "flow" /\ Len(ev.body) = 2
    /\ \A i \in 1..2 : WellFormed(ev.body[i]) /\ ev.body[i].priority = 1
    /\ \E i, j \in 1..2 : ~HasOutputAction(ev.body[i]) /\ HasOutputAction(ev.body[j])
    /\ Len(flow_csv.file) = 3
    /\ \E i, j \in 2..3 : flow_csv.file[i].out_port = NA /\ flow_csv.file[j].out_port # NA

(***************************************************************************)
(* C7.  One malformed entry does not block the others: in a reply (flow or  *)
(* port) with exactly one entry whose processing raises, every well-formed  *)
(* entry that the handler processes (priority 1; not a reserved port) has   *)
(* its record emitted and its history slot set to this reply's sample.      *)
(***************************************************************************)
Malformed(stat) == stat.defect # "none"

FlowToProcess(stat) == WellFormed(stat) /\ stat.priority = 1

PortToProcess(stat) == WellFormed(stat) /\ stat.port_no < OFPP_MAX

C7_FlowBatchContinues ==
    (ev'.kind = "flow" /\ Count(ev'.body, Malformed) = 1) =>
        /\ Len(NewFlowRows) = Count(ev'.body, FlowToProcess)
        /\ \A i \in 1..Len(ev'.body) :
               FlowToProcess(ev'.body[i]) =>
                   /\ FlowKey(ev'.dpid, ev'.body[i]) \in DOMAIN flow_stats_history'
                   /\ flow_stats_history'[FlowKey(ev'.dpid, ev'.body[i])].time = ev'.time

C7_PortBatchContinues ==
    (ev'.kind = "port" /\ Count(ev'.body, Malformed) = 1) =>
        /\ Len(NewPortRows) = Count(ev'.body, PortToProcess)
        /\ \A i \in 1..Len(ev'.body) :
               PortToProcess(ev'.body[i]) =>
                   /\ PortKey(ev'.dpid, ev'.body[i]) \in DOMAIN port_stats_history'
                   /\ port_stats_history'[PortKey(ev'.dpid, ev'.body[i])].time = ev'.time

C7_MalformedEntryIsolated == [][C7_FlowBatchContinues /\ C7_PortBatchContinues]_vars

(***************************************************************************)
(* The registry as the dict it is.                                          *)
(***************************************************************************)
Registry(dps) == [id \in Ids(dps) |-> Lookup(dps, id)]

(***************************************************************************)
(* C8.  Registration is idempotent: a device-up event for an id already in  *)
(* the registry and a device-down event for an id not in it leave the       *)
(* registry as it was; after an up event the id is in the registry, after   *)
(* a down event it is not, and no other step and no other id is touched:    *)
(* an id is in the registry exactly when its latest event was up.           *)
(***************************************************************************)
C8_RegistrationIdempotent ==
    [][IF conn_state' # conn_state
       THEN /\ ev'.kind = "state"
            /\ (ev'.state = "main") => ev'.dpid \in Ids(datapaths')
            /\ (ev'.state = "dead") => ev'.dpid \notin Ids(datapaths')
            /\ (ev'.state = "main" /\ ev'.dpid \in Ids(datapaths))
                   => Registry(datapaths') = Registry(datapaths)
            /\ (ev'.state = "dead" /\ ev'.dpid \notin Ids(datapaths))
                   => Registry(datapaths') = Registry(datapaths)
            /\ Ids(datapaths') \ {ev'.dpid} = Ids(datapaths) \ {ev'.dpid}
            /\ \A id \in Ids(datapaths') \ {ev'.dpid} :
                   Lookup(datapaths', id) = Lookup(datapaths, id)
       ELSE Registry(datapaths') = Registry(datapaths)]_vars

\* A second connection of a registered datapath id has come up: the registry
\* holds the handle it held before, not the one of the event.
C8_Witness ==
    /\ ev.kind = "state" /\ ev.state = "main"
    /\ ev.dpid \in Ids(datapaths)
    /\ Lookup(datapaths, ev.dpid) # ev.conn

(***************************************************************************)
(* C9.  On every tick, each device in the registry is sent one flow-, one   *)
(* port- and one queue-statistics request, and no device outside the        *)
(* registry is sent any.  Read at the step that ends a pass, against the    *)
(* registry the pass ends with.                                             *)
(***************************************************************************)
Requests(issued, id, kind) ==
    Cardinality({i \in 1..Len(issued) : issued[i].dpid = id /\ issued[i].kind = kind})

C9_ThreeRequestsPerDevice ==
    [][(mon_pc' = "sleep" /\ <<mon_pc, sent>> # <<mon_pc', sent'>>) =>
          /\ \A id \in Ids(datapaths) :
                 \A kind \in {"flow", "port", "queue"} : Requests(sent', id, kind) = 1
          /\ \A i \in 1..Len(sent') : sent'[i].dpid \in Ids(datapaths)]_vars

(***************************************************************************)
(* C10.  The request pass of a tick is atomic with respect to the registry: *)
(* while a pass is under way no registration or deregistration takes        *)
(* effect, and the pass never fails because the registry changed while it   *)
(* was iterated.                                                            *)
(***************************************************************************)
C10_RequestPassAtomic ==
    [][/\ mon_pc = "iter" => Registry(datapaths') = Registry(datapaths)
       /\ mon_pc' # "dead"]_vars

(***************************************************************************)
(* C11.  The poll scheduler has no terminal state: as long as stop() has   *)
(* not been called, whatever device-up and device-down events occur, the   *)
(* monitor thread always has a next step (it is asleep and will wake, or   *)
(* it is in a pass and will go on), so a further tick always comes.        *)
(***************************************************************************)
C11_PollLoopNeverEnds ==
    mon_pc # "killed" => ENABLED (MonitorTick \/ MonitorResume)

(***************************************************************************)
(* C12.  Cancellation.  When stop() returns, the monitor thread is no      *)
(* longer running, both sinks are closed and every row that was in a sink  *)
(* before is still there.  From then on no step issues a statistics        *)
(* request or restarts the thread, and no step (a reply handled after      *)
(* stop(), a second stop()) changes a sink.                                *)
(***************************************************************************)
IsPrefix(s, t) == Len(s) <= Len(t) /\ SubSeq(t, 1, Len(s)) = s

Stopped == flow_csv.closed /\ port_csv.closed

C12_StopReturns ==
    ev'.kind = "stop" =>
        /\ mon_pc' \notin {"sleep", "iter"}
        /\ flow_csv'.closed /\ port_csv'.closed
        /\ IsPrefix(flow_csv.file, flow_csv'.file)
        /\ IsPrefix(port_csv.file, port_csv'.file)

C12_AfterStop ==
    Stopped =>
        /\ sent' = sent
        /\ mon_pc' = mon_pc
        /\ flow_csv' = flow_csv
        /\ port_csv' = port_csv

C12_Cancellation == [][C12_StopReturns /\ C12_AfterStop]_vars

\* A flow reply with an entry to process, handled after stop(), the sink
\* holding rows written before.
C12_Witness ==
    /\ Stopped
    /\ Len(flow_csv.file) > 1
    /\ ev.kind = "flow"
    /\ \E i \in 1..Len(ev.body) : ev.body[i].priority = 1 /\ ev.body[i].defect = "none"

(***************************************************************************)
(* C13.  Flush after each reply batch: whenever a reply handler has        *)
(* returned, normally or after an error it contained, neither sink holds   *)
(* a row that was written and not flushed.                                 *)
(***************************************************************************)
C13_FlushedAfterBatch == flow_csv.buf = <<>> /\ port_csv.buf = <<>>

(***************************************************************************)
(* C14.  Single-slot history, last reply wins.  After a reply handler has  *)
(* run, the slot of every key it emitted a row for holds the sample of     *)
(* the last row emitted for that key in this reply (its counters and the   *)
(* reply's time), and a slot is replaced or created only if a row was      *)
(* emitted for its key: no slot changes without a row.                     *)
(***************************************************************************)
\* The key of a row of the flow sink, and of a row of the port sink.
FlowRowKey(row) == <<row.datapath_id, row.in_port, row.eth_dst, row.out_port>>

PortRowKey(row) == <<row.datapath_id, row.port_no>>

\* The slots of new that differ from old's.
Replaced(old, new) ==
    {k \in DOMAIN new : k \notin DOMAIN old \/ new[k] # old[k]}

C14_FlowSlots ==
    ev'.kind = "flow" =>
        /\ \A i \in 1..Len(NewFlowRows) :
              LET key == FlowRowKey(NewFlowRows[i])
              IN  /\ key \in DOMAIN flow_stats_history'
                  /\ flow_stats_history'[key].time = ev'.time
                  /\ \/ \E j \in (i + 1)..Len(NewFlowRows) :
                           FlowRowKey(NewFlowRows[j]) = key
                     \/ /\ flow_stats_history'[key].stat.packet_count
                              = NewFlowRows[i].packets
                        /\ flow_stats_history'[key].stat.byte_count
                              = NewFlowRows[i].bytes
        /\ \A key \in Replaced(flow_stats_history, flow_stats_history') :
              \E i \in 1..Len(NewFlowRows) : FlowRowKey(NewFlowRows[i]) = key

C14_PortSlots ==
    ev'.kind = "port" =>
        /\ \A i \in 1..Len(NewPortRows) :
              LET key == PortRowKey(NewPortRows[i])
              IN  /\ key \in DOMAIN port_stats_history'
                  /\ port_stats_history'[key].time = ev'.time
                  /\ \/ \E j \in (i + 1)..Len(NewPortRows) :
                           PortRowKey(NewPortRows[j]) = key
                     \/ /\ port_stats_history'[key].stat.rx_bytes
                              = NewPortRows[i].rx_bytes
                        /\ port_stats_history'[key].stat.tx_bytes
                              = NewPortRows[i].tx_bytes
        /\ \A key \in Replaced(port_stats_history, port_stats_history') :
              \E i \in 1..Len(NewPortRows) : PortRowKey(NewPortRows[i]) = key

C14_SlotReplacedIffEmitted == [][C14_FlowSlots /\ C14_PortSlots]_vars

(***************************************************************************)
(* C15.  At most one sample per key within one reply.  A switch reports    *)
(* each flow entry (a match at a priority) and each port once; of such a   *)
(* reply no two rows emitted have the same key, so entries that differ     *)
(* only in a match field outside the key (eth_src) do not collide.         *)
(***************************************************************************)
\* No flow entry (match and priority) is reported twice.
DistinctFlowEntries(body) ==
    \A i, j \in 1..Len(body) :
        i < j => \/ body[i].match # body[j].match
                 \/ body[i].priority # body[j].priority

\* No port is reported twice.
DistinctPorts(body) ==
    \A i, j \in 1..Len(body) : i < j => body[i].port_no # body[j].port_no

C15_FlowKeysDistinct ==
    (ev'.kind = "flow" /\ DistinctFlowEntries(ev'.body)) =>
        \A i, j \in 1..Len(NewFlowRows) :
            i < j => FlowRowKey(NewFlowRows[i]) # FlowRowKey(NewFlowRows[j])

C15_PortKeysDistinct ==
    (ev'.kind = "port" /\ DistinctPorts(ev'.body)) =>
        \A i, j \in 1..Len(NewPortRows) :
            i < j => PortRowKey(NewPortRows[i]) # PortRowKey(NewPortRows[j])

C15_OneSamplePerKey == [][C15_FlowKeysDistinct /\ C15_PortKeysDistinct]_vars

(***************************************************************************)
(* C16.  For a port entry that has a previous sample, error_rate_percent   *)
(* is 100 * error_delta / max(1, packet_delta_total), computed from the    *)
(* differences of successive samples (errors and packets, both             *)
(* directions added), not from the cumulative totals.                      *)
(***************************************************************************)
Max(a, b) == IF a >= b THEN a ELSE b

C16_ErrorRateOfDeltas ==
    (/\ OnePortEntry
     /\ ev'.body[1].port_no < OFPP_MAX
     /\ PortKey(ev'.dpid, ev'.body[1]) \in DOMAIN port_stats_history
     /\ ev'.time > port_stats_history[PortKey(ev'.dpid, ev'.body[1])].time
     /\ WellFormed(port_stats_history[PortKey(ev'.dpid, ev'.body[1])].stat)) =>
        LET stat == ev'.body[1]
            prev == port_stats_history[PortKey(ev'.dpid, stat)].stat
            error_delta == (stat.rx_errors + stat.tx_errors)
                              - (prev.rx_errors + prev.tx_errors)
            packet_delta_total == (stat.rx_packets + stat.tx_packets)
                                     - (prev.rx_packets + prev.tx_packets)
        IN  /\ Len(NewPortRows) = 1
            /\ RatEq(NewPortRows[1].error_rate_percent,
                     Rat(100 * error_delta, Max(1, packet_delta_total)))

C16_ErrorRateFromDeltas == [][C16_ErrorRateOfDeltas]_vars

(***************************************************************************)
(* C17.  Topology counts.  When treeTopo has built the network it has 2    *)
(* core, 4 aggregation and 8 edge switches and 16 hosts; 8 core-to-        *)
(* aggregation links, 8 aggregation-to-edge links (each aggregation        *)
(* switch linked to half of its pod's edge switches, that is to 2) and 16  *)
(* edge-to-host links; and no two links join the same pair of endpoints.   *)
(***************************************************************************)
\* The switches of a tier, and the links from one tier to another.
SwitchesOf(prefix) ==
    {i \in 1..Len(net.switches) : net.switches[i][1] = prefix}

LinksOf(from, to) ==
    {i \in 1..Len(net.links) :
        net.links[i].a[1] = from /\ net.links[i].b[1] = to}

\* The edge switches an aggregation switch is linked to.
EdgesOf(agg_sw) ==
    {net.links[i].b : i \in {l \in LinksOf("a", "e") : net.links[l].a = agg_sw}}

PodOfAgg(n) == (n - 1) \div 2

PodOfEdge(n) == (n - 1) \div 4

Reorderings(body) ==
    {[i \in 1..Len(body) |-> body[f[i]]] :
        f \in {g \in [1..Len(body) -> 1..Len(body)] :
                  \A i, j \in 1..Len(body) : g[i] = g[j] => i = j}}

\* The rows the handler of this step would have added for another body.
FlowRowsFor(body) ==
    LET st == FlowHandler(flow_stats_history, flow_csv, ev'.dpid, body, ev'.time)
    IN  SubSeq(DataRows(st.csv), Len(DataRows(flow_csv)) + 1, Len(DataRows(st.csv)))

PortRowsFor(body) ==
    LET st == PortHandler(port_stats_history, port_csv, ev'.dpid, body, ev'.time)
    IN  SubSeq(DataRows(st.csv), Len(DataRows(port_csv)) + 1, Len(DataRows(st.csv)))

FlowRowLeq(r, q) ==
    \/ r.in_port < q.in_port
    \/ r.in_port = q.in_port /\ r.eth_dst <= q.eth_dst

AllWellFormed(body) == \A i \in 1..Len(body) : WellFormed(body[i])

C18_FlowOrder ==
    (ev'.kind = "flow" /\ AllWellFormed(ev'.body) /\ DistinctFlowEntries(ev'.body)) =>
        /\ \A i, j \in 1..Len(NewFlowRows) :
              i < j => FlowRowLeq(NewFlowRows[i], NewFlowRows[j])
        /\ \A body \in Reorderings(ev'.body) : FlowRowsFor(body) = NewFlowRows

C18_PortOrder ==
    (ev'.kind = "port" /\ AllWellFormed(ev'.body) /\ DistinctPorts(ev'.body)) =>
        /\ \A i, j \in 1..Len(NewPortRows) :
              i < j => NewPortRows[i].port_no <= NewPortRows[j].port_no
        /\ \A body \in Reorderings(ev'.body) : PortRowsFor(body) = NewPortRows

C18_OrderIndependentOfBody == [][C18_FlowOrder /\ C18_PortOrder]_vars

(***************************************************************************)
(* C19.  The registry tracks the live connections.  If every live          *)
(* connection's device is registered with a live handle (a connection is   *)
(* live when it has reached MAIN and has not been closed), then this is    *)
(* still so after a connection has reached MAIN or a live connection has   *)
(* been closed; in particular after a device has reconnected and the MAIN  *)
(* event of the new connection was handled before the DEAD event of the    *)
(* old one.                                                                *)
(***************************************************************************)
TracksLive ==
    \A datapath \in Conns :
        conn_state[datapath] = "main" =>
            /\ DpidOf(datapath) \in Ids(datapaths)
            /\ conn_state[Lookup(datapaths, DpidOf(datapath))] = "main"

C19_RegistryTracksLive ==
    [][(/\ TracksLive
        /\ conn_state' # conn_state
        /\ ev'.kind = "state"
        /\ ev'.state = "main" \/ conn_state[ev'.conn] = "main") => TracksLive']_vars

(***************************************************************************)
(* C20.  Device up and down events leave the counter history alone: a      *)
(* state-change event changes neither history map, the key set of each     *)
(* map only grows, and a port reply (one well-formed entry, the sink open)  *)
(* for a key that has a well-formed stored sample of an earlier time is    *)
(* computed against that sample, not as a cold start, whatever             *)
(* registrations and deregistrations came in between.                      *)
(***************************************************************************)
C20_StateChangeKeepsHistory ==
    conn_state' # conn_state =>
        /\ flow_stats_history' = flow_stats_history
        /\ port_stats_history' = port_stats_history

C20_KeysOnlyGrow ==
    /\ DOMAIN flow_stats_history \subseteq DOMAIN flow_stats_history'
    /\ DOMAIN port_stats_history \subseteq DOMAIN port_stats_history'

C20_StoredSampleUsed ==
    (/\ OnePortEntry
     /\ ~port_csv.closed
     /\ PortKey(ev'.dpid, ev'.body[1]) \in DOMAIN port_stats_history
     /\ WellFormed(port_stats_history[PortKey(ev'.dpid, ev'.body[1])].stat)
     /\ ev'.time > port_stats_history[PortKey(ev'.dpid, ev'.body[1])].time) =>
        LET stat == ev'.body[1]
            prev == port_stats_history[PortKey(ev'.dpid, stat)]
        IN  /\ Len(NewPortRows) = 1
            /\ RatEq(NewPortRows[1].rx_bps,
                     Rat((stat.rx_bytes - prev.stat.rx_bytes) * 8,
                         ev'.time - prev.time))
            /\ RatEq(NewPortRows[1].tx_pps,
                     Rat(stat.tx_packets - prev.stat.tx_packets,
                         ev'.time - prev.time))

C20_HistorySurvivesReconnect ==
    [][C20_StateChangeKeepsHistory /\ C20_KeysOnlyGrow /\ C20_StoredSampleUsed]_vars

\* A second port reply with a non-zero rate, handled when the device's first
\* connection is closed and a later one is registered.
C20_Witness ==
    /\ ev.kind = "port"
    /\ Len(DataRows(port_csv)) = 2
    /\ ~RatIsZero(DataRows(port_csv)[2].rx_bps)
    /\ \E old, new \in Conns :
          /\ old < new
          /\ DpidOf(old) = ev.dpid /\ DpidOf(new) = ev.dpid
          /\ conn_state[old] = "dead" /\ conn_state[new] = "main"
          /\ ev.dpid \in Ids(datapaths)
          /\ Lookup(datapaths, ev.dpid) = new
=============================================================================
